---- MODULE Spec2Model ----
(***************************************************************************)
(* Model of the typo ranking rule of the ranking-rule graph                *)
(* (milli/src/search/new/ranking_rule_graph/typo/mod.rs): the edges that   *)
(* TypoGraph::build_visit_to_node generates for a query node and the       *)
(* document ids that TypoGraph::compute_docids resolves for an edge, over  *)
(* a read-only snapshot of the index; and of the path search that ranks    *)
(* the documents of a universe into buckets by cost over those edges, with *)
(* and without its empty-path cache.                                       *)
(***************************************************************************)
EXTENDS Integers, Sequences, FiniteSets, TLC

\* ------------------------------------------------------------------ bounds

\* Documents of the index are 1..NumDocs.
NumDocs == 2

\* TypoEdge::Word.nbr_typos is a u8; the model draws it from 0..MaxNbrTypos,
\* one past the three buckets the derivation tables populate.
MaxNbrTypos == 3

\* A query graph has at most MaxTerms term nodes.
MaxTerms == 3

\* compute_docids is called at most MaxCalls times on an edge.
MaxCalls == 3

\* A query string has at most MaxLen characters.
MaxLen == 5

\* next() is called at most MaxNext times on an iterator, more often than a
\* query string has characters.
MaxNext == 8

\* ------------------------------------------------------------- vocabulary

Docs == 1..NumDocs

\* The words of the index, and the surface word of the query term.
Words == {"cat", "cats"}

Original == "cat"

\* p is a prefix of w, for the strings of the model.
StartsWith(w, p) == <<w, p>> \in {<<"cat", "cat">>, <<"cats", "cat">>, <<"cats", "cats">>}

Range(s) == {s[i] : i \in 1..Len(s)}

\* Duplicate-free lists of words: a candidate-word list of a typo bucket, or
\* the text of a document.
WordLists == {<<>>, <<"cat">>, <<"cats">>, <<"cat", "cats">>, <<"cats", "cat">>}

\* Phrase: an ordered sequence of words that must match contiguously.
Phrases == {<<"cat", "cats">>, <<"cats", "cat">>}

NoPhrase == <<>>

\* ---------------------------------------------------------- query model

\* WordDerivations { original, zero_typo, one_typo, two_typos, use_prefix_db }:
\* the three candidate lists are disjoint by typo count.
AllWordDerivations ==
    {[original |-> Original, zero_typo |-> z, one_typo |-> o, two_typos |-> t,
      use_prefix_db |-> b] :
        <<z, o, t, b>> \in {q \in WordLists \X WordLists \X WordLists \X BOOLEAN :
            /\ Range(q[1]) \cap Range(q[2]) = {}
            /\ Range(q[1]) \cap Range(q[3]) = {}
            /\ Range(q[2]) \cap Range(q[3]) = {}}}

NoDerivations ==
    [original |-> Original, zero_typo |-> <<>>, one_typo |-> <<>>, two_typos |-> <<>>,
     use_prefix_db |-> FALSE]

\* QueryTerm::{Word { derivations }, Phrase { phrase }}
WordTerm(d) == [kind |-> "Word", derivations |-> d, phrase |-> NoPhrase]

PhraseTerm(p) == [kind |-> "Phrase", derivations |-> NoDerivations, phrase |-> p]

QueryTerms == {WordTerm(d) : d \in AllWordDerivations} \cup {PhraseTerm(p) : p \in Phrases}

\* QueryNode::{Term(LocatedQueryTerm { value, .. }), Deleted, Start, End}
TermNode(t) == [kind |-> "Term", value |-> t]

StartNode == [kind |-> "Start", value |-> PhraseTerm(NoPhrase)]

EndNode == [kind |-> "End", value |-> PhraseTerm(NoPhrase)]

DeletedNode == [kind |-> "Deleted", value |-> PhraseTerm(NoPhrase)]

QueryNodes == {TermNode(t) : t \in QueryTerms} \cup {StartNode, EndNode, DeletedNode}

\* The nodes an edge is built from, one of each shape.
FromNodes ==
    {StartNode, EndNode, DeletedNode, TermNode(WordTerm(NoDerivations))}
        \cup {TermNode(PhraseTerm(p)) : p \in Phrases}

\* TypoEdge::{Phrase { phrase }, Word { derivations, nbr_typos }}
TypoEdgePhrase(p) ==
    [kind |-> "Phrase", phrase |-> p, derivations |-> NoDerivations, nbr_typos |-> 0]

TypoEdgeWord(d, n) ==
    [kind |-> "Word", phrase |-> NoPhrase, derivations |-> d, nbr_typos |-> n]

TypoEdges ==
    {TypoEdgeWord(d, n) : d \in AllWordDerivations, n \in 0..MaxNbrTypos}
        \cup {TypoEdgePhrase(p) : p \in Phrases}

\* EdgeDetails::{Unconditional, Data(TypoEdge)}
Unconditional == [tag |-> "Unconditional", data |-> TypoEdgePhrase(NoPhrase)]

Data(e) == [tag |-> "Data", data |-> e]

\* One element (u8, EdgeDetails) of the vector build_visit_to_node returns.
Edge(c, details) == [cost |-> c, details |-> details]

\* ------------------------------------------------------- index snapshot

\* What the postings store holds under one key: no entry, or the bytes of an
\* encoded bitmap, which either decode to a document set or do not decode;
\* or the read of the key fails in the store.
Absent == [kind |-> "absent", docs |-> {}]

Bytes(S) == [kind |-> "bytes", docs |-> S]

Corrupt == [kind |-> "corrupt", docs |-> {}]

Unreadable == [kind |-> "unreadable", docs |-> {}]

WordKey(w) == [db |-> "word_docids", key |-> <<w>>]

PrefixKey(p) == [db |-> "word_prefix_docids", key |-> <<p>>]

PhraseKey(p) == [db |-> "phrase", key |-> p]

Keys ==
    {WordKey(w) : w \in Words} \cup {PrefixKey(Original)} \cup {PhraseKey(p) : p \in Phrases}

\* At most one key of a snapshot is faulty: its bytes are corrupt, or its
\* read fails.
NoFault == [key |-> [db |-> "none", key |-> <<>>], entry |-> Absent]

Faults == {NoFault} \cup {[key |-> k, entry |-> e] : k \in Keys, e \in {Corrupt, Unreadable}}

\* The postings of a corpus (one text per document).
WordPostings(corpus, w) == {d \in Docs : w \in Range(corpus[d])}

PrefixPostings(corpus, p) == {d \in Docs : \E w \in Range(corpus[d]) : StartsWith(w, p)}

PhrasePostings(corpus, p) ==
    {d \in Docs : \E i \in 0..(Len(corpus[d]) - Len(p)) :
        \A j \in 1..Len(p) : corpus[d][i + j] = p[j]}

Stored(S) == IF S = {} THEN Absent ELSE Bytes(S)

\* The snapshot of the index over a corpus: a key with no document has no
\* entry, the prefix database holds the prefix only when has_prefix, and the
\* entry under the faulty key (if any) is the fault's.
IndexOf(corpus, has_prefix, fault) ==
    [k \in Keys |->
        IF k = fault.key THEN fault.entry
        ELSE IF k.db = "word_docids" THEN Stored(WordPostings(corpus, k.key[1]))
        ELSE IF k.db = "word_prefix_docids"
            THEN (IF has_prefix THEN Stored(PrefixPostings(corpus, k.key[1])) ELSE Absent)
        ELSE Bytes(PhrasePostings(corpus, k.key))]

Indexes ==
    {IndexOf(corpus, hp, f) : corpus \in [Docs -> WordLists], hp \in BOOLEAN, f \in Faults}

\* ----------------------------------------------------------- results

\* Result<RoaringBitmap>, or the abort of panic!().
Ok(S) == [tag |-> "Ok", docids |-> S, error |-> "none"]

Err(e) == [tag |-> "Err", docids |-> {}, error |-> e]

Panic == [tag |-> "Panic", docids |-> {}, error |-> "none"]

\* Result<Vec<(u8, EdgeDetails)>>, or the abort of panic!().
OkEdges(es) == [tag |-> "Ok", edges |-> es]

PanicEdges == [tag |-> "Panic", edges |-> <<>>]

\* ------------------------------------------------------- postings cache

\* The DatabaseCache of the query (the keys it holds) and the record of
\* what was done with the store: each lookup ("get") and each decoding of
\* an entry's bytes ("decode"), in order.
NoIo == [db_cache |-> {}, log |-> <<>>]

Logged(io, ev, k) == [io EXCEPT !.log = Append(@, [ev |-> ev, key |-> k])]

\* DatabaseCache::get_word_docids / get_prefix_docids: Ok(Some(bytes)) with
\* the bytes stored under the key, Ok(None) when there is no entry, Err when
\* the read fails; a key that was read is cached.
get_docids(index, io, k) ==
    LET io1 == Logged(io, "get", k)
    IN  IF index[k].kind = "unreadable"
        THEN [tag |-> "Err", some |-> FALSE, bytes |-> index[k], io |-> io1]
        ELSE [tag |-> "Ok", some |-> index[k].kind # "absent", bytes |-> index[k],
              io |-> [io1 EXCEPT !.db_cache = @ \cup {k}]]

get_word_docids(index, io, word) == get_docids(index, io, WordKey(word))

get_prefix_docids(index, io, prefix) == get_docids(index, io, PrefixKey(prefix))

\* RoaringBitmapCodec::bytes_decode(bytes): None when the bytes do not decode.
bytes_decode(bytes) ==
    IF bytes.kind = "bytes" THEN [some |-> TRUE, bitmap |-> bytes.docs]
    ELSE [some |-> FALSE, bitmap |-> {}]

\* resolve_phrase: the documents that hold the phrase, or the error of the
\* lookup it makes.
resolve_phrase(index, io, phrase) ==
    LET got == get_docids(index, io, PhraseKey(phrase))
        dec == bytes_decode(got.bytes)
    IN  IF got.tag = "Err" THEN [result |-> Err("Storage"), io |-> got.io]
        ELSE [result |-> IF dec.some THEN Ok(dec.bitmap) ELSE Err("Decoding"),
              io |-> Logged(got.io, "decode", PhraseKey(phrase))]

\* ------------------------------------------------- TypoGraph::compute_docids

\* match nbr_typos { 0 => zero_typo, 1 => one_typo, 2 => two_typos, _ => panic!() }
words_of(derivations, nbr_typos) ==
    CASE nbr_typos = 0 -> derivations.zero_typo
      [] nbr_typos = 1 -> derivations.one_typo
      [] nbr_typos = 2 -> derivations.two_typos


\* Mutants of looks_up_prefix: the prefix is looked up at every typo count;
\* the prefix is looked up only when use_prefix_db is set.
looks_up_prefix_always(derivations, nbr_typos) == TRUE

looks_up_prefix_if_flag(derivations, nbr_typos) ==
    nbr_typos = 0 /\ derivations.use_prefix_db

\* if *nbr_typos == 0 { ... get_prefix_docids ... }
looks_up_prefix(derivations, nbr_typos) == nbr_typos = 0


\* Mutant of on_absent: a key without an entry is an error.
on_absent_fails(docids) == Err("Decoding")

\* let Some(bytes) = ... else { continue }: a key without an entry leaves
\* docids as it is and the function goes on.
on_absent(docids) == Ok(docids)


\* Mutant of decode_or_err: bytes that do not decode count as no document.
decode_or_skip(bytes) ==
    LET dec == bytes_decode(bytes)
    IN  IF dec.some THEN Ok(dec.bitmap) ELSE Ok({})

\* RoaringBitmapCodec::bytes_decode(bytes).ok_or(heed::Error::Decoding)?
decode_or_err(bytes) ==
    LET dec == bytes_decode(bytes)
    IN  IF dec.some THEN Ok(dec.bitmap) ELSE Err("Decoding")

\* Mutant of union_entry: an entry that was already looked up is taken to be
\* in docids already.
union_entry_first_lookup_only(got, k, docids) ==
    IF got.tag = "Err" THEN [result |-> Err("Storage"), io |-> got.io]
    ELSE IF ~got.some THEN [result |-> on_absent(docids), io |-> got.io]
    ELSE IF \E i \in 1..(Len(got.io.log) - 1) : got.io.log[i] = [ev |-> "get", key |-> k]
         THEN [result |-> Ok(docids), io |-> got.io]
    ELSE LET bitmap == decode_or_err(got.bytes)
             io1 == Logged(got.io, "decode", k)
         IN  IF bitmap.tag # "Ok" THEN [result |-> bitmap, io |-> io1]
             ELSE [result |-> Ok(docids \cup bitmap.docids), io |-> io1]

\* One lookup and its union into docids: the body of the loop, and of the
\* prefix lookup (get is the outcome of get_word_docids / get_prefix_docids).
union_entry(got, k, docids) ==
    IF got.tag = "Err" THEN [result |-> Err("Storage"), io |-> got.io]
    ELSE IF ~got.some THEN [result |-> on_absent(docids), io |-> got.io]
    ELSE LET bitmap == decode_or_err(got.bytes)
             io1 == Logged(got.io, "decode", k)
         IN  IF bitmap.tag # "Ok" THEN [result |-> bitmap, io |-> io1]
             ELSE [result |-> Ok(docids \cup bitmap.docids), io |-> io1]

\* for word in words.iter() { ... docids |= bitmap; }, from the i-th word on.
RECURSIVE union_words(_, _, _, _, _)
union_words(index, io, words, i, docids) ==
    IF i > Len(words) THEN [result |-> Ok(docids), io |-> io]
    ELSE LET step == union_entry(get_word_docids(index, io, words[i]), WordKey(words[i]),
                                 docids)
         IN  IF step.result.tag # "Ok" THEN step
             ELSE union_words(index, step.io, words, i + 1, step.result.docids)

\* The TypoEdge::Word arm.
compute_word_docids(index, io, derivations, nbr_typos) ==
    IF nbr_typos \notin {0, 1, 2} THEN [result |-> Panic, io |-> io]
    ELSE LET looped == union_words(index, io, words_of(derivations, nbr_typos), 1, {})
         IN  IF looped.result.tag # "Ok" THEN looped
             ELSE IF looks_up_prefix(derivations, nbr_typos)
                  THEN union_entry(get_prefix_docids(index, looped.io, derivations.original),
                                   PrefixKey(derivations.original), looped.result.docids)
                  ELSE looped


\* Mutant of compute_phrase_docids: the prefix postings of the surface word
\* are unioned into the phrase's documents.
compute_phrase_docids_with_prefix(index, io, phrase) ==
    LET r == resolve_phrase(index, io, phrase)
    IN  IF r.result.tag # "Ok" THEN r
        ELSE union_entry(get_prefix_docids(index, r.io, Original), PrefixKey(Original),
                         r.result.docids)

\* The TypoEdge::Phrase arm.
compute_phrase_docids(index, io, phrase) == resolve_phrase(index, io, phrase)

compute_docids(index, io, edge) ==
    IF edge.kind = "Phrase" THEN compute_phrase_docids(index, io, edge.phrase)
    ELSE compute_word_docids(index, io, edge.derivations, edge.nbr_typos)

\* --------------------------------------------- TypoGraph::build_visit_to_node

\* TypoGraph::build_visit_from_node: Ok(Some(())), the node is visitable.
build_visit_from_node(from_node) == [tag |-> "Ok", some |-> TRUE]


\* Mutant of wants_zero_typo_edge: use_prefix_db is not read.
wants_zero_typo_edge_no_prefix(derivations) == derivations.zero_typo # <<>>

\* Mutant of wants_zero_typo_edge: the zero-typo edge is always pushed.
wants_zero_typo_edge_always(derivations) == TRUE

\* if !derivations.zero_typo.is_empty() || derivations.use_prefix_db
wants_zero_typo_edge(derivations) ==
    derivations.zero_typo # <<>> \/ derivations.use_prefix_db

\* Mutant of wants_one_typo_edge: the test is an else-branch of the zero-typo
\* test.
wants_one_typo_edge_else(derivations) ==
    derivations.one_typo # <<>> /\ ~wants_zero_typo_edge(derivations)

\* if !derivations.one_typo.is_empty()
wants_one_typo_edge(derivations) == derivations.one_typo # <<>>

\* if !derivations.two_typos.is_empty()
wants_two_typos_edge(derivations) == derivations.two_typos # <<>>


\* Mutant of word_edge: the edge of cost c is given the typo count c + 1.
word_edge_next_bucket(derivations, c) == Edge(c, Data(TypoEdgeWord(derivations, c + 1)))

\* edges.push((c, EdgeDetails::Data(TypoEdge::Word { derivations, nbr_typos: c })))
word_edge(derivations, c) == Edge(c, Data(TypoEdgeWord(derivations, c)))

\* The QueryTerm::Word arm.
word_edges(derivations) ==
    (IF wants_zero_typo_edge(derivations) THEN <<word_edge(derivations, 0)>> ELSE <<>>)
        \o (IF wants_one_typo_edge(derivations) THEN <<word_edge(derivations, 1)>> ELSE <<>>)
        \o (IF wants_two_typos_edge(derivations) THEN <<word_edge(derivations, 2)>> ELSE <<>>)

\* The QueryTerm::Phrase arm.
phrase_edges(phrase) == <<Edge(0, Data(TypoEdgePhrase(phrase)))>>

\* Mutant of build_visit_to_node: a Deleted node gets no edge instead of
\* aborting.
build_visit_to_node_skips_deleted(to_node, from_node_data) ==
    CASE to_node.kind = "Term" ->
            IF to_node.value.kind = "Phrase" THEN OkEdges(phrase_edges(to_node.value.phrase))
            ELSE OkEdges(word_edges(to_node.value.derivations))
      [] to_node.kind = "End" -> OkEdges(<<Edge(0, Unconditional)>>)
      [] to_node.kind = "Deleted" -> OkEdges(<<>>)
      [] to_node.kind = "Start" -> PanicEdges

\* from_node_data is the () of build_visit_from_node and is not read.
build_visit_to_node(to_node, from_node_data) ==
    CASE to_node.kind = "Term" ->
            IF to_node.value.kind = "Phrase" THEN OkEdges(phrase_edges(to_node.value.phrase))
            ELSE OkEdges(word_edges(to_node.value.derivations))
      [] to_node.kind = "End" -> OkEdges(<<Edge(0, Unconditional)>>)
      [] to_node.kind \in {"Deleted", "Start"} -> PanicEdges

\* ------------------------------------------------------- ranking-rule graph

\* The word terms of the query graphs that are searched: "cat" with a
\* one-typo candidate, and "cats" with a two-typo candidate that is also
\* matched as a prefix.
SearchTerms ==
    {WordTerm([original |-> Original, zero_typo |-> <<"cat">>, one_typo |-> <<"cats">>,
               two_typos |-> <<>>, use_prefix_db |-> FALSE]),
     WordTerm([original |-> Original, zero_typo |-> <<"cats">>, one_typo |-> <<>>,
               two_typos |-> <<"cat">>, use_prefix_db |-> TRUE])}

\* The quoted phrase a query may start with.
SearchPhrase == PhraseTerm(<<"cat", "cats">>)

\* Sequences of 0..n word terms.
RECURSIVE TermSeqs(_)
TermSeqs(n) ==
    IF n = 0 THEN {<<>>}
    ELSE LET shorter == TermSeqs(n - 1)
         IN  shorter \cup {Append(ts, t) : ts \in {x \in shorter : Len(x) = n - 1},
                                           t \in SearchTerms}

\* A query graph: Start, the term nodes in term order, End.
QueryGraphOf(ts) == <<StartNode>> \o [i \in 1..Len(ts) |-> TermNode(ts[i])] \o <<EndNode>>

\* The edges of the ranking-rule graph into node i, from its predecessor.
edges_into(graph_nodes, i) ==
    LET from_node_data == build_visit_from_node(graph_nodes[i - 1])
        built == build_visit_to_node(graph_nodes[i], from_node_data)
    IN  IF ~from_node_data.some THEN <<>>
        ELSE [k \in 1..Len(built.edges) |->
                [from |-> i - 1, to |-> i, cost |-> built.edges[k].cost,
                 details |-> built.edges[k].details]]

\* RankingRuleGraph: every edge of the graph, identified by its position.
RECURSIVE build_edges(_, _)
build_edges(graph_nodes, i) ==
    IF i > Len(graph_nodes) THEN <<>>
    ELSE edges_into(graph_nodes, i) \o build_edges(graph_nodes, i + 1)

\* The Start-to-End paths (sequences of edge ids) from node n on whose edge
\* costs sum to exactly budget, in the order the edges were generated.
prepend(e, tails) == [k \in 1..Len(tails) |-> <<e>> \o tails[k]]

RECURSIVE paths_from(_, _, _, _)
RECURSIVE paths_via(_, _, _, _, _)
paths_from(graph_edges, n, last, budget) ==
    IF n = last THEN (IF budget = 0 THEN <<(<<>>)>> ELSE <<>>)
    ELSE paths_via(graph_edges, n, last, budget, 1)

paths_via(graph_edges, n, last, budget, e) ==
    IF e > Len(graph_edges) THEN <<>>
    ELSE (IF graph_edges[e].from = n /\ graph_edges[e].cost <= budget
          THEN prepend(e, paths_from(graph_edges, graph_edges[e].to, last,
                                     budget - graph_edges[e].cost))
          ELSE <<>>)
         \o paths_via(graph_edges, n, last, budget, e + 1)

\* A cost no path of the graph exceeds: the sum of the costs of its edges.
RECURSIVE max_cost(_)
max_cost(graph_edges) ==
    IF graph_edges = <<>> THEN 0
    ELSE graph_edges[1].cost + max_cost(Tail(graph_edges))

\* ------------------------------------------------------- empty-path cache

NoEmptyPaths == [edges |-> {}, prefixes |-> {}]

\* EmptyPathsCache::is_known_empty: the last edge of the path prefix is known
\* to have no document of the universe, or the prefix itself is known empty.
is_known_empty(cache, prefix) ==
    \/ prefix[Len(prefix)] \in cache.edges
    \/ prefix \in cache.prefixes

\* Mutant of mark_empty: the last edge of an empty prefix is recorded as
\* having no document of the universe, whatever it has alone.
mark_empty_last_edge(cache, prefix, edge_alone) ==
    [cache EXCEPT !.edges = @ \cup {prefix[Len(prefix)]}]

\* EmptyPathsCache::mark_empty: records the edge that alone has no document
\* of the universe, else the path prefix that has none.
mark_empty(cache, prefix, edge_alone) ==
    IF edge_alone THEN [cache EXCEPT !.edges = @ \cup {prefix[Len(prefix)]}]
    ELSE [cache EXCEPT !.prefixes = @ \cup {prefix}]

\* ----------------------------------------------------------- path search

Unresolved == [known |-> FALSE, docids |-> {}]

\* The result r of compute_docids for edge e, remembered when it is Ok.
memoize(st, e, r) ==
    [result |-> r.result,
     st |-> [st EXCEPT !.io = r.io,
                       !.edge_docids[e] = IF r.result.tag = "Ok"
                                          THEN [known |-> TRUE, docids |-> r.result.docids]
                                          ELSE @]]

\* The documents of edge e: an Unconditional edge keeps every document of
\* the path so far, else compute_docids, computed once per edge id (r is the
\* value of the one call that is made).
resolve_edge(idx, graph_edges, st, e) ==
    IF graph_edges[e].details.tag = "Unconditional" THEN [result |-> Ok(st.running), st |-> st]
    ELSE IF st.edge_docids[e].known THEN [result |-> Ok(st.edge_docids[e].docids), st |-> st]
    ELSE CHOOSE res \in {memoize(st, e, r) :
                           r \in {compute_docids(idx, st.io, graph_edges[e].details.data)}} : TRUE

\* The path that is walked is left: the next path of the level starts from
\* the whole universe.
leave_path(r) == [r EXCEPT !.path = r.path + 1, !.pos = 1, !.running = r.remaining]

\* Mutant of intersect: the documents of the edge, whatever the path so far
\* kept.
keep_edge_docids(running, docids) == docids

\* The documents of the path so far that an edge with docids keeps.
intersect(running, docids) == running \cap docids

\* The edge at r.pos of the path resolved to res: the search fails when the
\* edge did not resolve; a prefix found empty is recorded and abandoned; the
\* documents that match the last edge of a path join the bucket of the level.
walk_resolved(r, path, use_cache, res) ==
    IF res.result.tag # "Ok" THEN [res.st EXCEPT !.status = res.result, !.pc = "failed"]
    ELSE IF intersect(r.running, res.result.docids) = {}
         THEN leave_path([res.st EXCEPT !.cache =
                            IF use_cache
                            THEN mark_empty(@, SubSeq(path, 1, r.pos),
                                            intersect(r.remaining, res.result.docids) = {})
                            ELSE @])
    ELSE IF r.pos = Len(path)
         THEN leave_path([res.st EXCEPT !.level_docids =
                                            @ \cup intersect(r.running, res.result.docids)])
    ELSE [res.st EXCEPT !.pos = r.pos + 1,
                        !.running = intersect(r.running, res.result.docids)]

\* One edge of the path that is walked: r.running holds the documents of the
\* universe that match the edges before it. A path prefix known to be empty
\* is abandoned (r.pruned keeps the prefixes that were); else the edge is
\* resolved, once (res is the value of that resolution), and intersected.
walk_edge(idx, graph_edges, r, path, use_cache) ==
    IF use_cache /\ is_known_empty(r.cache, SubSeq(path, 1, r.pos))
    THEN leave_path([r EXCEPT !.pruned = @ \cup {SubSeq(path, 1, r.pos)}])
    ELSE CHOOSE next \in {walk_resolved(r, path, use_cache, res) :
                            res \in {resolve_edge(idx, graph_edges, r, path[r.pos])}} : TRUE

\* Mutant of after_level: the search is over when the next cost has no path.
after_level_next_cost(graph_edges, last, remaining, cost) ==
    IF remaining = {} THEN "done"
    ELSE IF paths_from(graph_edges, 1, last, cost + 1) = <<>> THEN "done"
    ELSE "search"

\* What follows a cost level: the search is over when the universe is
\* exhausted or no path of a higher cost exists.
after_level(graph_edges, last, remaining, cost) ==
    IF remaining = {} THEN "done"
    ELSE IF \A c \in (cost + 1)..max_cost(graph_edges) :
                paths_from(graph_edges, 1, last, c) = <<>> THEN "done"
    ELSE "search"

\* Mutant of shrink: the documents of a bucket stay in the universe.
shrink_nothing(remaining, bucket) == remaining

\* The documents that leave the universe with the bucket of a level.
shrink(remaining, bucket) == remaining \ bucket

\* The bucket list after a level whose paths matched level_docids.
emit(buckets, cost, level_docids) ==
    IF level_docids = {} THEN buckets
    ELSE Append(buckets, [cost |-> cost, docids |-> level_docids])

\* The end of a cost level: the documents its paths matched form the bucket
\* of the level and leave the universe.
end_level(graph_edges, last, r) ==
    [r EXCEPT !.buckets = emit(@, r.cost, r.level_docids),
              !.remaining = shrink(@, r.level_docids),
              !.level_docids = {},
              !.cost = r.cost + 1,
              !.paths = paths_from(graph_edges, 1, last, r.cost + 1),
              !.path = 1,
              !.pos = 1,
              !.running = shrink(r.remaining, r.level_docids),
              !.pc = after_level(graph_edges, last, shrink(r.remaining, r.level_docids),
                                 r.cost)]

\* ------------------------------------------------------------ QueryTokens

\* The characters of query strings: a letter of one byte, a letter of two
\* bytes (such as U+00E9), a space, a punctuation mark of two bytes (such as
\* U+00B7), and the quote.
Quote == "\""

Letters == {"a", "E"}

Marks == {" ", "M"}

QueryChars == Letters \cup Marks \cup {Quote}

\* char::len_utf8
len_utf8(c) == IF c \in {"E", "M"} THEN 2 ELSE 1

\* char::is_alphanumeric
is_alphanumeric(c) == c \in Letters

\* Query strings of at most n characters.
RECURSIVE QueryStrings(_)
QueryStrings(n) ==
    IF n = 0 THEN {<<>>}
    ELSE LET shorter == QueryStrings(n - 1)
         IN  shorter \cup {Append(str, c) : str \in {x \in shorter : Len(x) = n - 1},
                                            c \in QueryChars}

\* The length of a string in bytes.
RECURSIVE byte_len(_)
byte_len(string) ==
    IF string = <<>> THEN 0 ELSE len_utf8(string[1]) + byte_len(Tail(string))

\* The byte index of the k-th character: what CharIndices yields with it.
char_index(string, k) == byte_len(SubSeq(string, 1, k - 1))

\* str::is_char_boundary
is_char_boundary(string, b) == \E k \in 1..(Len(string) + 1) : char_index(string, k) = b

\* enum State { Free(usize), Quoted(usize), Fused }
StateFree(s) == [tag |-> "Free", s |-> s]

StateQuoted(s) == [tag |-> "Quoted", s |-> s]

StateFused == [tag |-> "Fused", s |-> 0]

\* State::is_quoted
is_quoted(state) == state.tag = "Quoted"

\* Option<QueryToken>: Some(Free(&string[from..to])), Some(Quoted(..)), None;
\* or the panic of a slice that is out of order or off a char boundary.
NoToken == [tag |-> "None", from |-> 0, to |-> 0]

SlicePanic == [tag |-> "Panic", from |-> 0, to |-> 0]

slice(tag, string, from, to) ==
    IF from <= to /\ is_char_boundary(string, from) /\ is_char_boundary(string, to)
    THEN [tag |-> tag, from |-> from, to |-> to]
    ELSE SlicePanic

\* QueryTokens::new
QueryTokensNew(query) == [state |-> StateFree(0), string |-> query, string_chars |-> 0]


\* Mutant of fused: the state is left as it was at the end of the string.
not_fused(state) == state

\* self.state.replace_by(State::Fused), at the end of the string.
fused(state) == StateFused


\* Mutant of pending_quoted: a quoted section that is not closed is dropped.
pending_quoted_dropped(string, s) == NoToken

\* State::Quoted(s) => Some(Quoted(&self.string[s..])), at the end of the
\* string.
pending_quoted(string, s) == slice("Quoted", string, s, byte_len(string))

\* The return of next() when string_chars is exhausted.
next_at_end(q) ==
    [item |-> CASE q.state.tag = "Free" ->
                    IF byte_len(q.string) > q.state.s
                    THEN slice("Free", q.string, q.state.s, byte_len(q.string))
                    ELSE NoToken
                [] q.state.tag = "Quoted" -> pending_quoted(q.string, q.state.s)
                [] q.state.tag = "Fused" -> NoToken,
     q |-> [q EXCEPT !.state = fused(q.state)]]


\* Mutant of free_wanted: a Free token is returned at every separator.
free_always(s, i) == TRUE

\* if i > s { return Some(Free(..)) }, at a quote and at a separator.
free_wanted(s, i) == i > s


\* Mutant of after_quote: the state after a closing quote starts at the
\* quote.
at_quote(i, afteri) == i

\* self.state.replace_by(State::Free(afteri)), at a closing quote.
after_quote(i, afteri) == afteri

\* A return of next() out of its loop.
Return(item, q) == [returns |-> TRUE, item |-> item, q |-> q]

\* The end of a pass of the loop of next() that returns nothing.
Continue(q) == [returns |-> FALSE, item |-> NoToken, q |-> q]

\* One pass of the loop of next(), on the character after string_chars.
next_pass(q) ==
    LET k == q.string_chars + 1
        c == q.string[k]
        i == char_index(q.string, k)
        afteri == i + len_utf8(c)
    IN  IF c = Quote
        THEN CASE q.state.tag = "Quoted" ->
                    Return(slice("Quoted", q.string, q.state.s, i),
                           [q EXCEPT !.string_chars = k,
                                     !.state = StateFree(after_quote(i, afteri))])
               [] q.state.tag = "Free" ->
                    IF free_wanted(q.state.s, i)
                    THEN Return(slice("Free", q.string, q.state.s, i),
                                [q EXCEPT !.string_chars = k, !.state = StateQuoted(afteri)])
                    ELSE Continue([q EXCEPT !.string_chars = k, !.state = StateQuoted(afteri)])
               [] q.state.tag = "Fused" ->
                    Return(NoToken, [q EXCEPT !.string_chars = k, !.state = StateFree(afteri)])
        ELSE IF ~is_quoted(q.state) /\ ~is_alphanumeric(c)
        THEN IF q.state.tag = "Free" /\ free_wanted(q.state.s, i)
             THEN Return(slice("Free", q.string, q.state.s, i),
                         [q EXCEPT !.string_chars = k, !.state = StateFree(afteri)])
             ELSE Continue([q EXCEPT !.string_chars = k, !.state = StateFree(afteri)])
        ELSE Continue([q EXCEPT !.string_chars = k])

\* QueryTokens::next: the loop, from the character after string_chars on.
RECURSIVE next(_)
next(q) ==
    IF q.string_chars = Len(q.string) THEN next_at_end(q)
    ELSE CHOOSE r \in {IF pass.returns THEN [item |-> pass.item, q |-> pass.q]
                       ELSE next(pass.q) : pass \in {next_pass(q)}} : TRUE

\* ------------------------------------------------------------------ state

VARIABLES
    index,      \* the read-only snapshot of the index (txn)
    db_cache,   \* the keys the DatabaseCache of the query holds
    log,        \* the lookups and decodings made so far, in order
    pc,         \* "idle", or how the last call ended: "returned", "panicked"
    call,       \* the last call: its function, its arguments and its result
    nodes,      \* the query graph: Start, the term nodes, End
    edges,      \* the ranking-rule graph: its edges, by edge id
    universe,   \* the documents the search is given
    run,        \* the path search, with its empty-path cache
    run_nc,     \* the same search run with the empty-path cache disabled
    iter        \* a QueryTokens iterator and what next() returned so far

vars == <<index, db_cache, log, pc, call, nodes, edges, universe, run, run_nc, iter>>

NoCall ==
    [op |-> "none", to_node |-> StartNode, from_node |-> StartNode,
     edge |-> TypoEdgePhrase(NoPhrase), edges |-> PanicEdges, docids |-> Panic, n |-> 0]

\* A search in state p, at cost 0 with the paths ps of that cost, over the
\* documents of u, with nothing resolved, nothing known empty and no bucket.
NewRun(p, u, n, ps) ==
    [pc |-> p, remaining |-> u, cost |-> 0, buckets |-> <<>>, cache |-> NoEmptyPaths,
     edge_docids |-> [e \in 1..n |-> Unresolved], io |-> NoIo, status |-> Ok({}),
     paths |-> ps, path |-> 1, pos |-> 1, running |-> u, level_docids |-> {},
     pruned |-> {}]

\* The iterator over a query string, before the first call of next(): q is
\* the QueryTokens, returned the tokens that were returned, in order, last
\* the last return of next(), calls the number of calls.
NewIter(query) ==
    [q |-> QueryTokensNew(query), returned |-> <<>>, last |-> [tag |-> "NotCalled", from |-> 0,
                                                             to |-> 0], calls |-> 0]

NoSearch ==
    /\ nodes = <<>>
    /\ edges = <<>>
    /\ universe = {}
    /\ run = NewRun("idle", {}, 0, <<>>)
    /\ run_nc = NewRun("idle", {}, 0, <<>>)

Init ==
    /\ index \in Indexes
    /\ db_cache = {}
    /\ log = <<>>
    /\ pc = "idle"
    /\ call = NoCall
    /\ NoSearch
    /\ iter = NewIter(<<>>)

\* A call of build_visit_to_node for an edge from_node -> to_node, on any
\* two query nodes.
BuildVisitToNode ==
    /\ pc = "idle"
    /\ run.pc = "idle"
    /\ \E to_node \in QueryNodes, from_node \in FromNodes :
        LET from_node_data == build_visit_from_node(from_node)
            r == build_visit_to_node(to_node, from_node_data)
        IN  /\ call' = [NoCall EXCEPT !.op = "build_visit_to_node", !.to_node = to_node,
                                      !.from_node = from_node, !.edges = r]
            /\ pc' = IF r.tag = "Panic" THEN "panicked" ELSE "returned"
    /\ UNCHANGED <<iter, index, db_cache, log, nodes, edges, universe, run, run_nc>>

\* A call of compute_docids on any edge.
ComputeDocids ==
    /\ pc = "idle"
    /\ run.pc = "idle"
    /\ \E edge \in TypoEdges :
        LET r == compute_docids(index, [db_cache |-> db_cache, log |-> log], edge)
        IN  /\ call' = [NoCall EXCEPT !.op = "compute_docids", !.edge = edge,
                                      !.docids = r.result, !.n = 1]
            /\ db_cache' = r.io.db_cache
            /\ log' = r.io.log
            /\ pc' = IF r.result.tag = "Panic" THEN "panicked" ELSE "returned"
    /\ UNCHANGED <<iter, index, nodes, edges, universe, run, run_nc>>

\* One more call of compute_docids on the edge of the last call, under the
\* same snapshot and with the same DatabaseCache.
ComputeDocidsAgain ==
    /\ pc = "returned"
    /\ call.op = "compute_docids"
    /\ call.n < MaxCalls
    /\ LET r == compute_docids(index, [db_cache |-> db_cache, log |-> log], call.edge)
       IN  /\ call' = [call EXCEPT !.docids = r.result, !.n = @ + 1]
           /\ db_cache' = r.io.db_cache
           /\ log' = r.io.log
           /\ pc' = IF r.result.tag = "Panic" THEN "panicked" ELSE "returned"
    /\ UNCHANGED <<iter, index, nodes, edges, universe, run, run_nc>>

Next == BuildVisitToNode \/ ComputeDocids \/ ComputeDocidsAgain

Spec == Init /\ [][Next]_vars

\* ------------------------------------------------- the search of a query

\* A word term without any candidate word, not matched as a prefix.
DeadTerm == WordTerm(NoDerivations)

\* Query graphs have 1..MaxTerms term nodes: word terms, after the phrase
\* if the query starts with one; or word terms with a term without
\* candidates before or after them.
QueryGraphs ==
    {QueryGraphOf(ts) : ts \in TermSeqs(MaxTerms) \ {<<>>}}
        \cup {QueryGraphOf(<<SearchPhrase>> \o ts) : ts \in TermSeqs(MaxTerms - 1)}
        \cup {QueryGraphOf(<<DeadTerm>> \o ts) : ts \in TermSeqs(MaxTerms - 1)}
        \cup {QueryGraphOf(ts \o <<DeadTerm>>) : ts \in TermSeqs(MaxTerms - 1)}

\* Documents are interchangeable in the corpus: a universe of each size.
Universes == {1..n : n \in 0..NumDocs}

\* The snapshots that are searched hold no faulty entry.
SearchIndexes == {IndexOf(corpus, hp, NoFault) : corpus \in [Docs -> WordLists], hp \in BOOLEAN}

SearchInit ==
    /\ index \in SearchIndexes
    /\ db_cache = {}
    /\ log = <<>>
    /\ pc = "idle"
    /\ call = NoCall
    /\ nodes \in QueryGraphs
    /\ edges = <<>>
    /\ universe \in Universes
    /\ run = NewRun("build", universe, 0, <<>>)
    /\ run_nc = NewRun("build", universe, 0, <<>>)
    /\ iter = NewIter(<<>>)

\* The ranking-rule graph of the query is built, once; the search starts at
\* cost 0 unless there is nothing to search.
BuildGraph ==
    /\ run.pc = "build"
    /\ \E built \in {build_edges(nodes, 2)} :
        /\ edges' = built
        /\ run' = NewRun(after_level(built, Len(nodes), universe, -1), universe, Len(built),
                         paths_from(built, 1, Len(nodes), 0))
        /\ run_nc' = run'
    /\ UNCHANGED <<iter, index, db_cache, log, pc, call, nodes, universe>>

Walking(r) == r.pc = "search" /\ r.path <= Len(r.paths)

AtEndOfLevel(r) == r.pc = "search" /\ r.path > Len(r.paths)

\* The search with the empty-path cache runs first, the search without it
\* after it.
CacheRunOver == run.pc \in {"done", "failed"}

\* The search walks the next edge of the path it is on.
WalkEdge ==
    /\ Walking(run)
    /\ run' = walk_edge(index, edges, run, run.paths[run.path], TRUE)
    /\ db_cache' = run'.io.db_cache
    /\ log' = run'.io.log
    /\ UNCHANGED <<iter, index, pc, call, nodes, edges, universe, run_nc>>

\* Every path of the cost level was walked: the level yields its bucket and
\* the search goes to the next cost, or stops.
EndLevel ==
    /\ AtEndOfLevel(run)
    /\ run' = end_level(edges, Len(nodes), run)
    /\ UNCHANGED <<iter, index, db_cache, log, pc, call, nodes, edges, universe, run_nc>>

\* The same steps of the search that runs without the empty-path cache.
WalkEdgeNoCache ==
    /\ CacheRunOver
    /\ Walking(run_nc)
    /\ run_nc' = walk_edge(index, edges, run_nc, run_nc.paths[run_nc.path], FALSE)
    /\ UNCHANGED <<iter, index, db_cache, log, pc, call, nodes, edges, universe, run>>

EndLevelNoCache ==
    /\ CacheRunOver
    /\ AtEndOfLevel(run_nc)
    /\ run_nc' = end_level(edges, Len(nodes), run_nc)
    /\ UNCHANGED <<iter, index, db_cache, log, pc, call, nodes, edges, universe, run>>

SearchNext == BuildGraph \/ WalkEdge \/ EndLevel \/ WalkEdgeNoCache \/ EndLevelNoCache

SearchSpec == SearchInit /\ [][SearchNext]_vars

\* The driver runs the search until it is over: a step that can be taken is
\* taken.
SearchFairSpec == SearchSpec /\ WF_vars(SearchNext)

\* ------------------------------------------- the search of "cat" / "cats"

\* The documents of the scenario, all in the universe.
ScenarioUniverse == 1..5

\* The single word term "cat": "cat" itself at zero typos, "cats" at one
\* typo, nothing at two typos.
ScenarioTerm(use_prefix_db) ==
    WordTerm([original |-> Original, zero_typo |-> <<"cat">>, one_typo |-> <<"cats">>,
              two_typos |-> <<>>, use_prefix_db |-> use_prefix_db])

\* What the prefix database may hold under "cat": nothing, or the documents
\* with a word that starts with "cat", which are those of "cat" and "cats"
\* and any of the others.
ScenarioPrefixEntries == {Absent} \cup {Bytes({1, 2, 3} \cup S) : S \in SUBSET {4, 5}}

\* A snapshot where "cat" has the postings {1,2} and "cats" the postings {3}.
ScenarioIndex(prefix_entry) ==
    [k \in Keys |->
        IF k = WordKey("cat") THEN Bytes({1, 2})
        ELSE IF k = WordKey("cats") THEN Bytes({3})
        ELSE IF k = PrefixKey(Original) THEN prefix_entry
        ELSE Bytes({})]

ScenarioInit ==
    /\ index \in {ScenarioIndex(e) : e \in ScenarioPrefixEntries}
    /\ db_cache = {}
    /\ log = <<>>
    /\ pc = "idle"
    /\ call = NoCall
    /\ nodes \in {QueryGraphOf(<<ScenarioTerm(b)>>) : b \in BOOLEAN}
    /\ edges = <<>>
    /\ universe = ScenarioUniverse
    /\ run = NewRun("build", universe, 0, <<>>)
    /\ run_nc = NewRun("build", universe, 0, <<>>)
    /\ iter = NewIter(<<>>)

ScenarioSpec == ScenarioInit /\ [][SearchNext]_vars

\* ------------------------------------------------ the tokens of a query

TokensInit ==
    /\ index = ScenarioIndex(Absent)
    /\ db_cache = {}
    /\ log = <<>>
    /\ pc = "idle"
    /\ call = NoCall
    /\ NoSearch
    /\ iter \in {NewIter(query) : query \in QueryStrings(MaxLen)}

\* A call of next() on the iterator.
QueryTokensNext ==
    /\ iter.calls < MaxNext
    /\ iter.last.tag # "Panic"
    /\ \E r \in {next(iter.q)} :
        iter' = [q |-> r.q,
                 returned |-> IF r.item.tag \in {"Free", "Quoted"}
                              THEN Append(iter.returned, r.item)
                              ELSE iter.returned,
                 last |-> r.item,
                 calls |-> iter.calls + 1]
    /\ UNCHANGED <<index, db_cache, log, pc, call, nodes, edges, universe, run, run_nc>>

TokensSpec == TokensInit /\ [][QueryTokensNext]_vars

\* The caller iterates: a call of next() that can be made is made.
TokensFairSpec == TokensSpec /\ WF_vars(QueryTokensNext)

\* ------------------------------------------------- properties of the calls

\* The candidate-word list of typo bucket c, read off the derivations.
Bucket(d, c) == IF c = 0 THEN d.zero_typo ELSE IF c = 1 THEN d.one_typo ELSE d.two_typos

\* The documents stored under a key of the snapshot (none without an entry).
Postings(k) == IF index[k].kind = "bytes" THEN index[k].docs ELSE {}

\* The keys a word edge looks up, in the order of the lookups: the words of
\* its bucket, then at nbr_typos = 0 the prefix of the original word.
KeySeq(e) ==
    [i \in 1..Len(Bucket(e.derivations, e.nbr_typos)) |->
        WordKey(Bucket(e.derivations, e.nbr_typos)[i])]
        \o (IF e.nbr_typos = 0 THEN <<PrefixKey(e.derivations.original)>> ELSE <<>>)

Sound(k) == index[k].kind \in {"absent", "bytes"}

\* The last call was build_visit_to_node on a Term node holding a Word.
BuiltWord ==
    /\ call.op = "build_visit_to_node"
    /\ call.to_node.kind = "Term"
    /\ call.to_node.value.kind = "Word"

\* The last call was compute_docids on a word edge of typo count 0, 1 or 2.
ResolvedWord ==
    /\ call.op = "compute_docids"
    /\ call.edge.kind = "Word"
    /\ call.edge.nbr_typos \in {0, 1, 2}

\* C1: for a Word term node, build_visit_to_node returns exactly one edge for
\* each typo bucket c in {0,1,2} whose word list is non-empty, plus one edge
\* for c = 0 when use_prefix_db is set, and no other edge; each edge is
\* Data(TypoEdge::Word) whose nbr_typos and cost both equal c.
C1_WordEdges ==
    BuiltWord =>
        LET d == call.to_node.value.derivations
            es == call.edges.edges
        IN  /\ call.edges.tag = "Ok"
            /\ \A c \in 0..2 :
                Cardinality({i \in 1..Len(es) : es[i].cost = c}) =
                    IF Bucket(d, c) # <<>> \/ (c = 0 /\ d.use_prefix_db) THEN 1 ELSE 0
            /\ \A i \in 1..Len(es) :
                /\ es[i].cost \in 0..2
                /\ es[i].details.tag = "Data"
                /\ es[i].details.data.kind = "Word"
                /\ es[i].details.data.nbr_typos = es[i].cost
                /\ es[i].details.data.derivations = d

\* A Word node with no zero-typo candidate and use_prefix_db set got its
\* zero-typo edge, and an edge for its one-typo candidates.
C1_Witness ==
    /\ BuiltWord
    /\ call.to_node.value.derivations.zero_typo = <<>>
    /\ call.to_node.value.derivations.use_prefix_db
    /\ call.to_node.value.derivations.one_typo # <<>>
    /\ Len(call.edges.edges) = 2
    /\ call.edges.edges[1].cost = 0

\* C2: when every entry a word edge of typo count c looks up is absent or
\* decodes, compute_docids returns the union of the postings of the words of
\* bucket c, plus the prefix postings of the original word only at c = 0;
\* nothing else contributes, and an edge with the same candidate words in
\* another order resolves to the same documents.
C2_WordUnion ==
    ResolvedWord =>
        LET e == call.edge
            keys == Range(KeySeq(e))
        IN  (\A k \in keys : Sound(k)) =>
                /\ call.docids =
                    Ok(UNION {Postings(WordKey(w)) : w \in Range(Bucket(e.derivations, e.nbr_typos))}
                        \cup (IF e.nbr_typos = 0 THEN Postings(PrefixKey(e.derivations.original))
                              ELSE {}))
                /\ \A e2 \in TypoEdges :
                    (/\ e2.kind = "Word"
                     /\ e2.nbr_typos = e.nbr_typos
                     /\ e2.derivations.use_prefix_db = e.derivations.use_prefix_db
                     /\ \A c \in 0..2 :
                            Range(Bucket(e2.derivations, c)) = Range(Bucket(e.derivations, c)))
                        => compute_docids(index, NoIo, e2).result = call.docids

\* A one-typo edge resolved to the postings of its one candidate while the
\* prefix postings and the postings of the zero-typo word hold other documents.
C2_Witness ==
    /\ ResolvedWord
    /\ call.edge.nbr_typos = 1
    /\ call.edge.derivations.one_typo = <<"cats">>
    /\ call.edge.derivations.zero_typo = <<"cat">>
    /\ call.docids.tag = "Ok"
    /\ call.docids.docids # {}
    /\ ~(Postings(PrefixKey(Original)) \subseteq call.docids.docids)
    /\ ~(Postings(WordKey("cat")) \subseteq call.docids.docids)

\* C5: for a Term node holding a Phrase, build_visit_to_node returns exactly
\* one edge, of cost 0, carrying TypoEdge::Phrase with that phrase; and
\* compute_docids on a phrase edge returns what phrase resolution returns
\* (its documents or its error), with nothing unioned in.
C5_Phrase ==
    /\ (/\ call.op = "build_visit_to_node"
        /\ call.to_node.kind = "Term"
        /\ call.to_node.value.kind = "Phrase")
        => call.edges = OkEdges(<<Edge(0, Data(TypoEdgePhrase(call.to_node.value.phrase)))>>)
    /\ (call.op = "compute_docids" /\ call.edge.kind = "Phrase")
        => LET k == PhraseKey(call.edge.phrase)
           IN  /\ call.docids = resolve_phrase(index, NoIo, call.edge.phrase).result
               /\ index[k].kind = "bytes" => call.docids = Ok(index[k].docs)
               /\ index[k].kind # "bytes" => call.docids.tag = "Err"

\* A phrase edge resolved to the documents of the phrase while the words of
\* the phrase and the prefix have documents the phrase has not.
C5_Witness ==
    /\ call.op = "compute_docids"
    /\ call.edge.kind = "Phrase"
    /\ call.docids.tag = "Ok"
    /\ call.docids.docids # {}
    /\ ~(Postings(PrefixKey(Original)) \subseteq call.docids.docids)
    /\ ~(Postings(WordKey("cats")) \subseteq call.docids.docids)

\* The edge e with use_prefix_db set to b.
WithPrefixDb(e, b) == [e EXCEPT !.derivations.use_prefix_db = b]

\* C6: a word edge with nbr_typos = 0 resolves to the same result whatever
\* its use_prefix_db, and that result holds the prefix postings of the
\* original word in both cases.
C6_PrefixUnconditional ==
    (ResolvedWord /\ call.edge.nbr_typos = 0) =>
        /\ \A b \in BOOLEAN :
            compute_docids(index, NoIo, WithPrefixDb(call.edge, b)).result = call.docids
        /\ call.docids.tag = "Ok" =>
            Postings(PrefixKey(call.edge.derivations.original)) \subseteq call.docids.docids

\* A zero-typo edge with use_prefix_db unset resolved to documents that only
\* the prefix postings hold.
C6_Witness ==
    /\ ResolvedWord
    /\ call.edge.nbr_typos = 0
    /\ ~call.edge.derivations.use_prefix_db
    /\ call.docids.tag = "Ok"
    /\ \E d \in call.docids.docids :
        \A w \in Range(call.edge.derivations.zero_typo) : d \notin Postings(WordKey(w))

\* The first key, in lookup order, whose entry is neither absent nor
\* decodable (0 when there is none).
FirstUnsound(ks) ==
    IF \A i \in 1..Len(ks) : Sound(ks[i]) THEN 0
    ELSE CHOOSE i \in 1..Len(ks) : ~Sound(ks[i]) /\ \A j \in 1..(i - 1) : Sound(ks[j])

\* C8: when the first entry a word edge fails on has bytes that do not
\* decode, compute_docids returns the Decoding error and no document; that
\* entry was looked up and decoded once in the call (call.n calls were made),
\* and nothing was looked up after it.
C8_DecodingError ==
    ResolvedWord =>
        LET ks == KeySeq(call.edge)
            f == FirstUnsound(ks)
        IN  (f # 0 /\ index[ks[f]].kind = "corrupt") =>
                /\ call.docids = Err("Decoding")
                /\ Len(log) >= 2
                /\ log[Len(log)] = [ev |-> "decode", key |-> ks[f]]
                /\ log[Len(log) - 1] = [ev |-> "get", key |-> ks[f]]
                /\ Cardinality({i \in 1..Len(log) : log[i].key = ks[f]}) = 2 * call.n

\* The second lookup of an edge hit corrupt bytes after a first one had
\* found documents.
C8_Witness ==
    /\ ResolvedWord
    /\ Len(KeySeq(call.edge)) >= 2
    /\ index[KeySeq(call.edge)[1]].kind = "bytes"
    /\ index[KeySeq(call.edge)[2]].kind = "corrupt"
    /\ call.docids.tag = "Err"

\* C9: a looked-up key without an entry is not an error: when the entries a
\* word edge looks up are absent or decode, compute_docids returns Ok with
\* the union of the entries that exist, the empty set when none exists; it
\* returns an error only when a looked-up entry cannot be read or decoded.
C9_AbsentIsNoError ==
    ResolvedWord =>
        LET keys == Range(KeySeq(call.edge))
            present == {k \in keys : index[k].kind = "bytes"}
        IN  /\ (\A k \in keys : Sound(k)) =>
                /\ call.docids.tag = "Ok"
                /\ call.docids.docids = UNION {index[k].docs : k \in present}
                /\ present = {} => call.docids = Ok({})
            /\ call.docids.tag = "Err" =>
                \E k \in keys : index[k].kind \in {"corrupt", "unreadable"}

\* An edge with an absent first word, and an absent prefix entry, resolved to
\* the documents of its second word.
C9_Witness ==
    /\ ResolvedWord
    /\ call.edge.nbr_typos = 0
    /\ Len(call.edge.derivations.zero_typo) = 2
    /\ index[WordKey(call.edge.derivations.zero_typo[1])].kind = "absent"
    /\ index[PrefixKey(call.edge.derivations.original)].kind = "absent"
    /\ call.docids.tag = "Ok"
    /\ call.docids.docids # {}

\* C10: build_visit_to_node aborts when to_node is Start or Deleted, whatever
\* the node the edge comes from, and returns Ok for a Term or End node; it
\* never returns an Err.
C10_StartDeletedAbort ==
    call.op = "build_visit_to_node" =>
        /\ call.to_node.kind \in {"Start", "Deleted"} =>
            (call.edges.tag = "Panic" /\ pc = "panicked")
        /\ call.to_node.kind \in {"Term", "End"} =>
            (call.edges.tag = "Ok" /\ pc = "returned")
        /\ call.edges.tag \in {"Ok", "Panic"}

\* build_visit_to_node was called to reach a Deleted node from a Term node
\* and aborted.
C10_Witness ==
    /\ call.op = "build_visit_to_node"
    /\ call.to_node.kind = "Deleted"
    /\ call.from_node.kind = "Term"
    /\ pc = "panicked"

\* ------------------------------------------------ properties of the search

\* Document d is in the postings an edge of the ranking-rule graph stands
\* for: any document for the Unconditional edge, the postings of the phrase,
\* or the postings of one of the keys of a word edge.
MatchesEdge(d, e) ==
    IF e.details.tag = "Unconditional" THEN TRUE
    ELSE IF e.details.data.kind = "Phrase" THEN d \in Postings(PhraseKey(e.details.data.phrase))
    ELSE \E i \in 1..Len(KeySeq(e.details.data)) : d \in Postings(KeySeq(e.details.data)[i])

\* Document d matches every edge of some path from node n to End whose edge
\* costs sum to budget.
RECURSIVE MatchesFrom(_, _, _)
MatchesFrom(d, n, budget) ==
    IF n = Len(nodes) THEN budget = 0
    ELSE \E e \in 1..Len(edges) :
            /\ edges[e].from = n
            /\ edges[e].cost <= budget
            /\ MatchesEdge(d, edges[e])
            /\ MatchesFrom(d, edges[e].to, budget - edges[e].cost)

\* Document d matches every edge of some Start-to-End path of cost c.
MatchesAtCost(d, c) == MatchesFrom(d, 1, c)

SearchOver(r) == r.pc \in {"done", "failed"}

\* C3: every document of the bucket of cost level L is in the universe,
\* matches every edge of some Start-to-End path whose edge costs sum to L,
\* and matches no Start-to-End path of a lower total cost.
C3_BucketOfMinimalCost ==
    \A i \in 1..Len(run.buckets) : \A d \in run.buckets[i].docids :
        /\ d \in universe
        /\ MatchesAtCost(d, run.buckets[i].cost)
        /\ \A c \in 0..(run.buckets[i].cost - 1) : ~MatchesAtCost(d, c)

\* A search is over with a document in a bucket of a cost above 0, while a
\* document outside the universe matches a path of a lower cost.
C3_Witness ==
    /\ SearchOver(run)
    /\ \E i \in 1..Len(run.buckets) :
        /\ run.buckets[i].docids # {}
        /\ \E d \in Docs \ universe : \E c \in 0..(run.buckets[i].cost - 1) :
                MatchesAtCost(d, c)

\* C4: the buckets of a search are emitted in non-decreasing cost order (no
\* bucket follows a bucket of a greater cost) and no document is in two of
\* them.
C4_BucketsOrderedDisjoint ==
    \A i, j \in 1..Len(run.buckets) :
        i < j => /\ run.buckets[i].cost <= run.buckets[j].cost
                 /\ run.buckets[i].docids \cap run.buckets[j].docids = {}

\* A search has emitted two buckets, and a document of the first one also
\* matches a path of the cost of the second.
C4_Witness ==
    /\ Len(run.buckets) >= 2
    /\ \E d \in run.buckets[1].docids : MatchesAtCost(d, run.buckets[2].cost)

\* C7: the search with the empty-path cache ends with the same sequence of
\* buckets, with the same documents in each, as the search without it.
C7_CacheKeepsBuckets ==
    (SearchOver(run) /\ SearchOver(run_nc)) => run.buckets = run_nc.buckets

\* Both searches are over and produced buckets; the one with the cache
\* abandoned a path on an edge it knew empty and another on a prefix it
\* knew empty.
C7_Witness ==
    /\ SearchOver(run)
    /\ SearchOver(run_nc)
    /\ run.buckets # <<>>
    /\ \E prefix \in run.pruned : prefix \in run.cache.prefixes
    /\ \E prefix \in run.pruned : prefix[Len(prefix)] \in run.cache.edges

\* The buckets the scenario expects: {1,2} at cost 0, {3} at cost 1.
ScenarioBuckets == <<[cost |-> 0, docids |-> {1, 2}], [cost |-> 1, docids |-> {3}]>>

\* C11 as stated: whatever else the snapshot holds, the search of the
\* scenario ends with the cost-0 bucket {1,2} and the cost-1 bucket {3}, no
\* other bucket, and documents 4 and 5 in no bucket.
C11_AsStated ==
    SearchOver(run) => (run.pc = "done" /\ run.buckets = ScenarioBuckets
                        /\ run.remaining = {4, 5})

\* C11, amended: when the prefix database has no entry for "cat", the search
\* of the scenario ends with the cost-0 bucket {1,2} and the cost-1 bucket
\* {3}, no other bucket, and documents 4 and 5 in no bucket.
C11_ScenarioBuckets ==
    (SearchOver(run) /\ index[PrefixKey(Original)] = Absent)
        => (run.pc = "done" /\ run.buckets = ScenarioBuckets /\ run.remaining = {4, 5})

\* The search of the scenario is over on a snapshot without the prefix
\* "cat", after both edges of the term were resolved.
C11_Witness ==
    /\ run.pc = "done"
    /\ universe = ScenarioUniverse
    /\ index[PrefixKey(Original)] = Absent
    /\ \A e \in 1..2 : run.edge_docids[e].known

\* A Word term node with no candidate at any typo count and no prefix match.
IsDead(node) ==
    /\ node.kind = "Term"
    /\ node.value.kind = "Word"
    /\ node.value.derivations.zero_typo = <<>>
    /\ node.value.derivations.one_typo = <<>>
    /\ node.value.derivations.two_typos = <<>>
    /\ ~node.value.derivations.use_prefix_db

\* The ranking-rule graph of the query is built.
GraphBuilt == run.pc # "build" /\ run.pc # "idle"

\* C12: a Word term node whose three candidate lists are empty and whose
\* use_prefix_db is false gets no edge from build_visit_to_node; in a query
\* graph with such a node (every path crosses every term node) there is no
\* Start-to-End path of any cost and the search puts no document in any
\* bucket.
C12_DeadNode ==
    \A i \in 1..Len(nodes) :
        (IsDead(nodes[i]) /\ GraphBuilt) =>
            /\ build_visit_to_node(nodes[i], build_visit_from_node(nodes[i - 1])) = OkEdges(<<>>)
            /\ \A e \in 1..Len(edges) : edges[e].to # i
            /\ \A c \in 0..max_cost(edges) : paths_from(edges, 1, Len(nodes), c) = <<>>
            /\ run.buckets = <<>>
            /\ run_nc.buckets = <<>>

\* Both searches are over on a graph with such a node next to a term node
\* one of whose edges a document of the universe matches.
C12_Witness ==
    /\ SearchOver(run)
    /\ SearchOver(run_nc)
    /\ \E i \in 1..Len(nodes) : IsDead(nodes[i])
    /\ \E e \in 1..Len(edges) : \E d \in universe :
        edges[e].details.tag = "Data" /\ MatchesEdge(d, edges[e])

\* No Start-to-End path of the graph has a cost of c or more.
NoPathFrom(c) == \A k \in c..max_cost(edges) : paths_from(edges, 1, Len(nodes), k) = <<>>

\* The documents of the buckets of a search.
Assigned(r) == UNION {r.buckets[i].docids : i \in 1..Len(r.buckets)}

\* A search goes on while a document is unassigned and a path of the cost it
\* is at, or of a higher cost, remains; it is over as soon as neither holds,
\* with the unassigned documents in no bucket.
StopsExactlyWhen ==
    /\ run.pc = "search" => (run.remaining # {} /\ ~NoPathFrom(run.cost))
    /\ SearchOver(run) =>
        /\ run.remaining = {} \/ NoPathFrom(run.cost)
        /\ run.remaining = universe \ Assigned(run)

\* C13: the path search eventually stops; it stops exactly when every
\* document of the universe is in a bucket or no Start-to-End path of a
\* higher cost remains; once it stopped, its buckets stay as they are, the
\* unassigned documents in none.
C13_SearchStops ==
    /\ <>SearchOver(run)
    /\ []StopsExactlyWhen
    /\ [][SearchOver(run) => run' = run]_vars

\* A search stopped after a bucket, for want of a path of a higher cost,
\* with a document of the universe unassigned.
C13_Witness ==
    /\ run.pc = "done"
    /\ run.buckets # <<>>
    /\ run.remaining # {}
    /\ NoPathFrom(run.cost)

\* A step that is a repeated call of compute_docids.
RepeatedCall == call.op = "compute_docids" /\ call'.n = call.n + 1 /\ call.n >= 1

\* C14: a repeated call of compute_docids on the same edge under the same
\* snapshot returns what the call before it returned, and changes nothing
\* but the DatabaseCache, which only gains keys of that edge.
C14_Idempotent ==
    [][RepeatedCall =>
        /\ call'.docids = call.docids
        /\ call'.edge = call.edge
        /\ index' = index
        /\ db_cache \subseteq db_cache'
        /\ db_cache' \ db_cache \subseteq
              (IF call.edge.kind = "Phrase" THEN {PhraseKey(call.edge.phrase)}
               ELSE Range(KeySeq(call.edge)))]_vars

\* compute_docids was called three times on a word edge of two stored words
\* and returned documents.
C14_Witness ==
    /\ call.op = "compute_docids"
    /\ call.n >= 3
    /\ call.edge.kind = "Word"
    /\ Len(Bucket(call.edge.derivations, call.edge.nbr_typos)) = 2
    /\ call.docids.tag = "Ok"
    /\ call.docids.docids # {}
    /\ db_cache # {}

\* The number of times the bytes stored under a key were decoded.
Decodings(k) == Cardinality({i \in 1..Len(log) : log[i] = [ev |-> "decode", key |-> k]})

\* C18: within one query (one postings cache over one snapshot) the bytes of
\* each word key or prefix key are decoded at most once, however many
\* compute_docids calls look the key up.
C18_DecodedOncePerKey ==
    \A i \in 1..Len(log) : Decodings(log[i].key) <= 1

\* The word edges that build_visit_to_node returns for some query node.
GeneratedWordEdges ==
    {e \in TypoEdges :
        /\ e.kind = "Word"
        /\ \E to_node \in QueryNodes, from_node \in FromNodes :
            LET r == build_visit_to_node(to_node, build_visit_from_node(from_node))
            IN  /\ r.tag = "Ok"
                /\ \E i \in 1..Len(r.edges) :
                    r.edges[i].details.tag = "Data" /\ r.edges[i].details.data = e}

\* C19: every Word edge that build_visit_to_node returns has a typo count
\* of 0, 1 or 2, and compute_docids on it does not abort, whatever the
\* snapshot and the cache hold; a compute_docids call aborts exactly on a
\* Word edge of typo count above 2, which build_visit_to_node returns for no
\* query node.
C19_GeneratedEdgesInRange ==
    /\ (call.op = "build_visit_to_node" /\ call.edges.tag = "Ok") =>
        \A i \in 1..Len(call.edges.edges) :
            LET details == call.edges.edges[i].details
            IN  (details.tag = "Data" /\ details.data.kind = "Word") =>
                    /\ details.data.nbr_typos \in {0, 1, 2}
                    /\ compute_docids(index, [db_cache |-> db_cache, log |-> log],
                                      details.data).result.tag # "Panic"
    /\ call.op = "compute_docids" =>
        /\ (call.docids.tag = "Panic") <=> (call.edge.kind = "Word" /\ call.edge.nbr_typos > 2)
        /\ call.docids.tag = "Panic" => call.edge \notin GeneratedWordEdges
        /\ call.edge \in GeneratedWordEdges => call.docids.tag # "Panic"

\* build_visit_to_node returned the three word edges of a term with words
\* in every bucket, the last of them with two typos.
C19_Witness ==
    /\ BuiltWord
    /\ call.edges.tag = "Ok"
    /\ Len(call.edges.edges) = 3
    /\ call.edges.edges[3].details.data.nbr_typos = 2
    /\ call.edges.edges[3].details.data.derivations.two_typos # <<>>

\* ------------------------------------------------ properties of the tokens

\* The iterator has returned None.
IterOver == iter.last.tag = "None"

\* The number of quotes among the first n characters of the string.
QuotesIn(string, n) == Cardinality({k \in 1..n : string[k] = Quote})

\* The k-th character lies inside a quoted section: it is not a quote, and an
\* odd number of quotes precedes it.
InQuotes(string, k) == string[k] # Quote /\ QuotesIn(string, k - 1) % 2 = 1

\* The token covers the k-th character of the string.
Covers(t, string, k) == t.from <= char_index(string, k) /\ char_index(string, k) < t.to

\* The tokens returned so far, of the given kind, that cover the k-th
\* character.
Covering(kind, k) ==
    {j \in 1..Len(iter.returned) :
        iter.returned[j].tag = kind /\ Covers(iter.returned[j], iter.q.string, k)}

\* The number of quotes of the string before byte b.
QuotesBefore(string, b) ==
    Cardinality({k \in 1..Len(string) : string[k] = Quote /\ char_index(string, k) < b})

\* C15: the tokens returned are substrings of the input, in increasing
\* position and without overlap; no token contains a quote; a token is Quoted
\* exactly when an odd number of quotes precedes it (quotes alternately open
\* and close a quoted section), and covers only characters of its side of
\* the quotes; and once the iterator is over, every alphanumeric character
\* outside quotes is in exactly one Free token and every character inside a
\* quoted section is in exactly one Quoted token.
C15_TokensPartition ==
    LET string == iter.q.string
        out == iter.returned
    IN  /\ iter.last.tag # "Panic"
        /\ \A j \in 1..Len(out) :
            /\ out[j].from <= out[j].to /\ out[j].to <= byte_len(string)
            /\ is_char_boundary(string, out[j].from) /\ is_char_boundary(string, out[j].to)
            /\ j < Len(out) => out[j].to < out[j + 1].from
            /\ (out[j].tag = "Quoted") <=> (QuotesBefore(string, out[j].from) % 2 = 1)
            /\ \A k \in 1..Len(string) :
                Covers(out[j], string, k) =>
                    /\ string[k] # Quote
                    /\ (out[j].tag = "Quoted") <=> InQuotes(string, k)
        /\ IterOver =>
            \A k \in 1..Len(string) :
                /\ is_alphanumeric(string[k]) /\ ~InQuotes(string, k)
                    => Cardinality(Covering("Free", k)) = 1
                /\ InQuotes(string, k) => Cardinality(Covering("Quoted", k)) = 1

\* The iterator is over on a string with a word, a closed quoted section
\* that holds a separator, and a word after it: three tokens.
C15_Witness ==
    /\ IterOver
    /\ Len(iter.returned) = 3
    /\ iter.returned[1].tag = "Free"
    /\ iter.returned[2].tag = "Quoted"
    /\ iter.returned[3].tag = "Free"
    /\ \E k \in 1..Len(iter.q.string) :
        /\ ~is_alphanumeric(iter.q.string[k])
        /\ Covers(iter.returned[2], iter.q.string, k)

\* The tokens that an iterator returns before its first None.
RECURSIVE collect(_)
collect(q) ==
    CHOOSE out \in {IF r.item.tag \in {"Free", "Quoted"}
                    THEN <<r.item>> \o collect(r.q)
                    ELSE <<>> : r \in {next(q)}} : TRUE

\* The string ends inside a quoted section: its number of quotes is odd.
EndsInQuotes(string) == QuotesIn(string, Len(string)) % 2 = 1

\* The position of the last quote of a string that has one.
LastQuote(string) ==
    CHOOSE k \in 1..Len(string) :
        string[k] = Quote /\ \A l \in (k + 1)..Len(string) : string[l] # Quote

\* C16: when the input ends inside a quoted section and the iterator is
\* over, the last token returned is Quoted and is the rest of the input after
\* the last quote, empty or not, and the tokens returned are those of the
\* input with a closing quote added at its end.
C16_UnclosedQuote ==
    LET string == iter.q.string
        out == iter.returned
    IN  (IterOver /\ EndsInQuotes(string)) =>
            /\ out # <<>>
            /\ out[Len(out)] = [tag |-> "Quoted",
                                from |-> char_index(string, LastQuote(string) + 1),
                                to |-> byte_len(string)]
            /\ out = collect(QueryTokensNew(Append(string, Quote)))

\* The iterator is over on a string that ends with an opening quote after a
\* word: the last token is the empty Quoted token.
C16_Witness ==
    /\ IterOver
    /\ EndsInQuotes(iter.q.string)
    /\ Len(iter.returned) >= 2
    /\ iter.returned[Len(iter.returned)].tag = "Quoted"
    /\ iter.returned[Len(iter.returned)].from = iter.returned[Len(iter.returned)].to
    /\ iter.returned[1].tag = "Free"

\* C17: every Free token returned is non-empty and holds only alphanumeric
\* characters.
C17_FreeTokens ==
    \A j \in 1..Len(iter.returned) :
        iter.returned[j].tag = "Free" =>
            /\ iter.returned[j].from < iter.returned[j].to
            /\ \A k \in 1..Len(iter.q.string) :
                Covers(iter.returned[j], iter.q.string, k) => is_alphanumeric(iter.q.string[k])

\* A Free token of two letters was returned after two separators in a row,
\* and a separator follows it.
C17_Witness ==
    \E j \in 1..Len(iter.returned), k \in 3..(Len(iter.q.string) - 2) :
        /\ iter.returned[j].tag = "Free"
        /\ iter.returned[j].from = char_index(iter.q.string, k)
        /\ iter.returned[j].to = char_index(iter.q.string, k + 2)
        /\ iter.q.string[k - 1] \in Marks
        /\ iter.q.string[k - 2] \in Marks
        /\ iter.q.string[k + 2] \in Marks

\* C20: on every input string the iterator returns None after finitely many
\* tokens; whenever its last return is None its state is Fused; and a call
\* of next() after a None returns None again and adds no token.
C20_FusedAfterNone ==
    /\ <>IterOver
    /\ [](IterOver => iter.q.state = StateFused)
    /\ [][IterOver => (iter'.last.tag = "None" /\ iter'.returned = iter.returned)]_vars

\* next() has returned None three times, after two tokens.
C20_Witness ==
    /\ IterOver
    /\ Len(iter.returned) = 2
    /\ iter.calls = Len(iter.returned) + 3
    /\ iter.q.state = StateFused

====
